---- MODULE Spec2Model ----
(***************************************************************************)
(* TernakPro AI Recommendation API (src/api/recommend.py, src/api/healt.py) *)
(*                                                                         *)
(* State: the process-wide LivestockModel holder (model, is_loaded,        *)
(* error_message), the ANIMAL_INFO table, and the observable result of the *)
(* last handler run: its response and, for recommend_livestock, its        *)
(* request, the path predict took and the local `prediction`.              *)
(*                                                                         *)
(* Numbers.  Rates (success_rate, roi, market_demand) are Python floats in *)
(* the source.  They are modelled by their exact decimal values in units   *)
(* of 1/10000 (0.85 is 8500); percentages rounded to one decimal are in    *)
(* tenths of a percent (28.1% is 281).  Binary rounding of the IEEE        *)
(* doubles is not modelled.                                                *)
(***************************************************************************)
EXTENDS Integers, Sequences, FiniteSets

VARIABLES model, is_loaded, error_message, ANIMAL_INFO,
          started, lastOp, request, prediction, predPath, resp

vars == <<model, is_loaded, error_message, ANIMAL_INFO,
          started, lastOp, request, prediction, predPath, resp>>

(***************************************************************************)
(* Bounds and input domains                                                *)
(***************************************************************************)
MaxLandK == 1

LandSizes == {-1, 0, 99, 100, 199, 200} \cup {200 + 50 * k : k \in 1..MaxLandK}

Goals == {"daging", "telur", "susu", "wol"}

Experiences == {"pemula", "menengah", "ahli", "senior"}

\* The request fields no rule reads, varied together.
Contexts ==
    {[region |-> "jawa_barat", available_feed |-> "rumput", time_availability |-> "penuh"],
     [region |-> "bali", available_feed |-> "konsentrat", time_availability |-> "paruh"],
     [region |-> "jawa_barat", available_feed |-> "konsentrat", time_availability |-> "paruh"]}

Requests ==
    {[region |-> c.region, land_size |-> l, goal |-> g,
      available_feed |-> c.available_feed,
      time_availability |-> c.time_availability, experience |-> e] :
        c \in Contexts, l \in LandSizes, g \in Goals, e \in Experiences}

None == "None"

\* What joblib.load can hand back: a usual artifact bundle (a non-empty
\* dict, truthy), an empty container (falsy), a pickled None, or an object
\* whose truth value is ambiguous (a numpy array / DataFrame: bool() raises
\* ValueError).
LoadedObjects == {"bundle", "empty", None, "array"}

LoadErrors == {"invalid load key", "No module named 'sklearn'"}

(***************************************************************************)
(* LivestockModel                                                          *)
(***************************************************************************)
\* The table with an unrecognized experience treated as 'ahli'.
experience_multiplier_default_one(experience) ==
    CASE experience = "pemula"   -> 8
      [] experience = "menengah" -> 9
      [] OTHER                   -> 10

\* The multiplier table of _predict_with_rules, in tenths.
experience_multiplier(experience) ==
    CASE experience = "pemula"   -> 8
      [] experience = "menengah" -> 9
      [] experience = "ahli"     -> 10
      [] OTHER                   -> 8

MkPrediction(animal, success_rate) ==
    [recommended_animal |-> animal,
     success_rate       |-> success_rate,
     roi                |-> (success_rate * 4) \div 10,
     market_demand      |-> 8000 + (success_rate * 2) \div 10]

_predict_with_rules(input_data) ==
    LET goal       == input_data.goal
        land_size  == input_data.land_size
        multiplier == experience_multiplier(input_data.experience)
    IN  IF goal = "daging"
        THEN IF land_size < 100
             THEN MkPrediction("ayam_pedaging", (8500 * multiplier) \div 10)
             ELSE IF land_size < 200
                  THEN MkPrediction("kambing", (7500 * multiplier) \div 10)
                  ELSE MkPrediction("sapi_potong", (8000 * multiplier) \div 10)
        ELSE IF goal = "telur"
        THEN MkPrediction("ayam_petelur", (7800 * multiplier) \div 10)
        ELSE IF goal = "susu"
        THEN MkPrediction("sapi_perah", (8200 * multiplier) \div 10)
        ELSE MkPrediction("ayam_pedaging", (7000 * multiplier) \div 10)

\* The model path with both land boundaries moved to the lower branch.
_predict_with_model_inclusive(input_data) ==
    LET goal      == input_data.goal
        land_size == input_data.land_size
    IN  IF goal = "daging"
        THEN IF land_size <= 100
             THEN MkPrediction("ayam_pedaging", 8500)
             ELSE IF land_size <= 200
                  THEN MkPrediction("kambing", 7800)
                  ELSE MkPrediction("sapi_potong", 8200)
        ELSE IF goal = "telur"
        THEN MkPrediction("ayam_petelur", 8000)
        ELSE IF goal = "susu"
        THEN MkPrediction("sapi_perah", 7500)
        ELSE MkPrediction("ayam_pedaging", 7000)

\* The model path with roi taken as half of success_rate.
_predict_with_model_roi_half(input_data) ==
    LET goal      == input_data.goal
        land_size == input_data.land_size
        Mk(animal, success_rate) ==
            [recommended_animal |-> animal,
             success_rate       |-> success_rate,
             roi                |-> (success_rate * 5) \div 10,
             market_demand      |-> 8000 + (success_rate * 2) \div 10]
    IN  IF goal = "daging"
        THEN IF land_size < 100
             THEN Mk("ayam_pedaging", 8500)
             ELSE IF land_size < 200
                  THEN Mk("kambing", 7800)
                  ELSE Mk("sapi_potong", 8200)
        ELSE IF goal = "telur"
        THEN Mk("ayam_petelur", 8000)
        ELSE IF goal = "susu"
        THEN Mk("sapi_perah", 7500)
        ELSE Mk("ayam_pedaging", 7000)

_predict_with_model(input_data) ==
    LET goal      == input_data.goal
        land_size == input_data.land_size
    IN  IF goal = "daging"
        THEN IF land_size < 100
             THEN MkPrediction("ayam_pedaging", 8500)
             ELSE IF land_size < 200
                  THEN MkPrediction("kambing", 7800)
                  ELSE MkPrediction("sapi_potong", 8200)
        ELSE IF goal = "telur"
        THEN MkPrediction("ayam_petelur", 8000)
        ELSE IF goal = "susu"
        THEN MkPrediction("sapi_perah", 7500)
        ELSE MkPrediction("ayam_pedaging", 7000)

\* bool(obj): "true", "false", or "raises" (ValueError: truth value ambiguous)
Truth(obj) ==
    CASE obj = "bundle" -> "true"
      [] obj = "array"  -> "raises"
      [] OTHER          -> "false"

\* Which branch of predict produces the result:
\*   "model"    line 65,  "rules" line 67,  "fallback" line 71 (except).
PredictPath(loaded, obj) ==
    IF ~loaded THEN "rules"
    ELSE CASE Truth(obj) = "true"   -> "model"
           [] Truth(obj) = "false"  -> "rules"
           [] Truth(obj) = "raises" -> "fallback"

Return(value) == [raised |-> FALSE, value |-> value]

Raise(exc) == [raised |-> TRUE, exc |-> exc]

\* The try block of predict, lines 63-67: `self.is_loaded and self.model`
\* short-circuits on is_loaded, and the `if` takes bool() of the object.
TryPredict(loaded, obj, input_data) ==
    IF ~loaded
    THEN Return(_predict_with_rules(input_data))
    ELSE CASE Truth(obj) = "true"   -> Return(_predict_with_model(input_data))
           [] Truth(obj) = "false"  -> Return(_predict_with_rules(input_data))
           [] Truth(obj) = "raises" -> Raise("ValueError")

\* predict without its except clause: the error leaves predict.
predict_propagating(loaded, obj, input_data) ==
    TryPredict(loaded, obj, input_data)

\* predict: what leaves it, a returned Dict or an exception.
predict(loaded, obj, input_data) ==
    LET tried == TryPredict(loaded, obj, input_data)
    IN  IF tried.raised
        THEN Return(_predict_with_rules(input_data))
        ELSE tried

(***************************************************************************)
(* load_model: the three candidate paths, probed in order                  *)
(***************************************************************************)
ModelPaths == <<"../models/rekomendasi_ternak_ternakpro_v1_model.pkl",
                "models/rekomendasi_ternak_ternakpro_v1_model.pkl",
                "rekomendasi_ternak_ternakpro_v1_model.pkl">>

FileSystems == SUBSET {ModelPaths[i] : i \in 1..3}

\* What joblib.load does with the file: returns an object or raises.
LoadOutcomes == [raises : {FALSE}, obj : LoadedObjects]
                \cup [raises : {TRUE}, msg : LoadErrors]

\* Lines 37-46: the path load_model ends up probing.
model_path(fs) ==
    IF ModelPaths[1] \in fs THEN ModelPaths[1]
    ELSE IF ModelPaths[2] \in fs THEN ModelPaths[2]
    ELSE ModelPaths[3]

load_model(fs, outcome) ==
    IF model_path(fs) \in fs
    THEN IF outcome.raises
         THEN /\ error_message' = outcome.msg
              /\ UNCHANGED <<model, is_loaded>>
         ELSE /\ model' = outcome.obj
              /\ is_loaded' = TRUE
              /\ error_message' = None
    ELSE /\ error_message' = "Model file not found"
         /\ UNCHANGED <<model, is_loaded>>

(***************************************************************************)
(* ANIMAL_INFO                                                             *)
(***************************************************************************)
AnimalKeys == {"ayam_pedaging", "ayam_petelur", "sapi_potong", "kambing",
               "sapi_perah"}

AnimalInfoTable ==
    [k \in AnimalKeys |->
       CASE k = "ayam_pedaging" ->
              [name |-> "Ayam Pedaging", initial_cost |-> 5000000,
               description |-> "Ayam pedaging cocok untuk pemula dengan keuntungan cepat dalam 30-40 hari",
               feed_requirements |-> <<"Konsentrat: 0.15kg/ekor/hari", "Jagung: 0.1kg/ekor/hari", "Vitamin: sesuai kebutuhan">>,
               health_risks |-> <<"Penyakit ND (Newcastle Disease)", "Penyakit AI (Avian Influenza)", "Gumboro">>,
               tips |-> <<"Vaksinasi teratur", "Jaga kebersihan kandang", "Kontrol suhu dan ventilasi">>]
         [] k = "ayam_petelur" ->
              [name |-> "Ayam Petelur", initial_cost |-> 6000000,
               description |-> "Ayam petelur memberikan pendapatan rutin dari telur dengan masa produktif 1-2 tahun",
               feed_requirements |-> <<"Konsentrat layer: 0.12kg/ekor/hari", "Kalsium: 0.05kg/ekor/hari", "Vitamin: sesuai kebutuhan">>,
               health_risks |-> <<"Penyakit CRD", "Tetelo", "Cacingan">>,
               tips |-> <<"Pencahayaan cukup 14-16 jam/hari", "Pemberian vitamin rutin", "Kandang bersih dan kering">>]
         [] k = "sapi_potong" ->
              [name |-> "Sapi Potong", initial_cost |-> 25000000,
               description |-> "Sapi potong memberikan keuntungan tinggi tetapi membutuhkan modal besar dan lahan luas",
               feed_requirements |-> <<"Rumput: 30kg/ekor/hari", "Konsentrat: 5kg/ekor/hari", "Mineral: sesuai kebutuhan">>,
               health_risks |-> <<"Penyakit mulut dan kuku", "Antraks", "Cacingan">>,
               tips |-> <<"Kandang luas dengan drainase baik", "Perhatikan sanitasi kandang", "Vaksinasi rutin">>]
         [] k = "kambing" ->
              [name |-> "Kambing", initial_cost |-> 8000000,
               description |-> "Kambing mudah dipelihara dan memiliki permintaan pasar yang stabil",
               feed_requirements |-> <<"Rumput: 10kg/ekor/hari", "Konsentrat: 1kg/ekor/hari", "Air minum: secukupnya">>,
               health_risks |-> <<"Cacingan", "Scabies", "Pneumonia">>,
               tips |-> <<"Kandang kering dan bersih", "Pemberian pakan berkualitas", "Perhatikan kesehatan kaki">>]
         [] k = "sapi_perah" ->
              [name |-> "Sapi Perah", initial_cost |-> 30000000,
               description |-> "Sapi perah memberikan penghasilan rutin dari susu dengan perawatan intensif",
               feed_requirements |-> <<"Hijauan: 40kg/ekor/hari", "Konsentrat: 6kg/ekor/hari", "Mineral: sesuai kebutuhan">>,
               health_risks |-> <<"Mastitis", "Metritis", "Cacingan">>,
               tips |-> <<"Kandang bersih dan nyaman", "Pemerahan yang hygienis", "Pakan berkualitas tinggi">>]]

\* dict.get(key, default)
DictGet(d, key, default) == IF key \in DOMAIN d THEN d[key] ELSE default

(***************************************************************************)
(* _generate_explanation                                                   *)
(***************************************************************************)
\* str.lower() on the strings that reach it: upper-case letters become
\* lower-case, every other character (a space, an underscore) is kept.
StrLower(s) ==
    CASE s = "Ayam Pedaging" -> "ayam pedaging"
      [] s = "Ayam Petelur"  -> "ayam petelur"
      [] s = "Sapi Potong"   -> "sapi potong"
      [] s = "Kambing"       -> "kambing"
      [] s = "Sapi Perah"    -> "sapi perah"
      [] OTHER               -> s

\* f"{x*100:.1f}" and round(x * 100, 1): a rate as tenths of a percent.
Pct1(x) == (x + 5) \div 10

\* An explanation string: the template it was built from and its pieces.
_generate_explanation(animal_name, req, pred) ==
    LET explanations ==
          [k \in AnimalKeys |->
             CASE k = "ayam_pedaging" ->
                    [template |-> k,
                     parts |-> <<"Ayam pedaging direkomendasikan untuk lahan ", req.land_size,
                                 "m2 dengan tujuan ", req.goal, ". Cocok untuk ",
                                 req.experience, " dengan ROI ", Pct1(pred.roi), "%">>]
               [] k = "ayam_petelur" ->
                    [template |-> k,
                     parts |-> <<"Ayam petelur ideal untuk produksi telur dengan kesesuaian ",
                                 Pct1(pred.success_rate),
                                 "%. Permintaan pasar stabil di ", req.region>>]
               [] k = "sapi_potong" ->
                    [template |-> k,
                     parts |-> <<"Sapi potong cocok untuk lahan luas dengan potensi keuntungan tinggi. ROI mencapai ",
                                 Pct1(pred.roi), "%">>]
               [] k = "kambing" ->
                    [template |-> k,
                     parts |-> <<"Kambing mudah dipelihara dan sesuai untuk ", req.experience,
                                 ". Permintaan pasar ", Pct1(pred.market_demand), "%">>]
               [] k = "sapi_perah" ->
                    [template |-> k,
                     parts |-> <<"Sapi perah memberikan penghasilan rutin dari susu. Cocok untuk peternak dengan pengalaman">>]]
    IN  DictGet(explanations, StrLower(animal_name),
                [template |-> "fallback",
                 parts |-> <<animal_name, " direkomendasikan berdasarkan analisis kondisi Anda">>])

(***************************************************************************)
(* recommend_livestock                                                     *)
(***************************************************************************)
\* Names recommend_livestock can resolve at line 234: its parameter and
\* locals, and the module's globals.
NamesInScope ==
    {"request", "input_data", "prediction", "animal_type", "animal_details",
     "response",
     "FastAPI", "HTTPException", "CORSMiddleware", "BaseModel", "joblib", "pd",
     "np", "os", "Dict", "List", "json", "app", "LivestockModel",
     "livestock_model", "RecommendationRequest", "ANIMAL_INFO",
     "startup_event", "recommend_livestock", "_generate_explanation",
     "health_check", "root", "handler"}

\* floor(cost * rate) for a rate in units of 1/10000, with no product
\* beyond 32 bits.
MulFloor(cost, rate) ==
    (cost \div 10000) * rate + ((cost % 10000) * rate) \div 10000

\* Line 244.
ModelUsed(loaded) == IF loaded THEN "ml_model" ELSE "rule_based"

\* Lines 232-245, given that every name in them resolves.
ResponseData(req, pred, animal_details, loaded) ==
    [jenis_hewan        |-> animal_details.name,
     alasan             |-> _generate_explanation(animal_details.name, req, pred),
     biaya_awal         |-> animal_details.initial_cost,
     potensi_keuntungan |-> MulFloor(animal_details.initial_cost, pred.roi),
     roi                |-> Pct1(pred.roi),
     kesesuaian_kondisi |-> Pct1(pred.success_rate),
     permintaan_pasar   |-> Pct1(pred.market_demand),
     deskripsi          |-> animal_details.description,
     kebutuhan_pakan    |-> animal_details.feed_requirements,
     resiko_kesehatan   |-> animal_details.health_risks,
     tips               |-> animal_details.tips,
     model_used         |-> ModelUsed(loaded)]

HTTP500(message) ==
    [status |-> 500, detail |-> <<"Error processing request: ", message>>]

\* The response of the handler once predict has returned `pred`.
Respond(req, pred, info, loaded) ==
    LET animal_type    == pred.recommended_animal
        animal_details == DictGet(info, animal_type, info["ayam_pedaging"])
    IN  IF "self" \in NamesInScope
        THEN [status |-> 200, success |-> TRUE,
              data |-> ResponseData(req, pred, animal_details, loaded)]
        ELSE HTTP500("name 'self' is not defined")

(***************************************************************************)
(* State machine                                                           *)
(***************************************************************************)
NoRequest == [region |-> "", land_size |-> 0, goal |-> "",
              available_feed |-> "", time_availability |-> "",
              experience |-> ""]

NoPrediction == Return(MkPrediction("", 0))

NoResponse == [status |-> 0]

\* After import of recommend.py: livestock_model constructed (lines 28-31,
\* 149), ANIMAL_INFO built (161-202), startup not yet run.
Init ==
    /\ model = None
    /\ is_loaded = FALSE
    /\ error_message = None
    /\ ANIMAL_INFO = AnimalInfoTable
    /\ started = FALSE
    /\ lastOp = "none"
    /\ request = NoRequest
    /\ prediction = NoPrediction
    /\ predPath = "none"
    /\ resp = NoResponse

startup_event ==
    /\ ~started
    /\ \E fs \in FileSystems, outcome \in LoadOutcomes : load_model(fs, outcome)
    /\ started' = TRUE
    /\ lastOp' = "startup"
    /\ request' = NoRequest
    /\ prediction' = NoPrediction
    /\ predPath' = "none"
    /\ resp' = NoResponse
    /\ UNCHANGED ANIMAL_INFO

\* recommend_livestock that marks the holder unloaded when predict fell
\* back to the rules.
recommend_livestock_downgrading(req) ==
    LET p == predict(is_loaded, model, req)
    IN  /\ request' = req
        /\ prediction' = p
        /\ predPath' = PredictPath(is_loaded, model)
        /\ resp' = Respond(req, p.value, ANIMAL_INFO, is_loaded)
        /\ lastOp' = "recommend"
        /\ is_loaded' = (PredictPath(is_loaded, model) = "model")
        /\ UNCHANGED <<model, error_message, ANIMAL_INFO, started>>

\* POST /api/recommend.  A request can arrive whether or not the startup
\* hook has run (a host that never sends the lifespan event leaves the
\* holder as constructed).
recommend_livestock(req) ==
    LET input_data == [region |-> req.region, land_size |-> req.land_size,
                       goal |-> req.goal, available_feed |-> req.available_feed,
                       time_availability |-> req.time_availability,
                       experience |-> req.experience]
        p == predict(is_loaded, model, input_data)
    IN  /\ request' = req
        /\ prediction' = p
        /\ predPath' = PredictPath(is_loaded, model)
        /\ resp' = IF p.raised
                   THEN HTTP500("truth value is ambiguous")
                   ELSE Respond(req, p.value, ANIMAL_INFO, is_loaded)
        /\ lastOp' = "recommend"
        /\ UNCHANGED <<model, is_loaded, error_message, ANIMAL_INFO, started>>

\* health_check that answers 503 "unhealthy" while a load error is recorded.
health_check_strict ==
    /\ resp' = IF error_message = None
               THEN [status |-> 200,
                     body |-> [status |-> "healthy",
                               model_loaded |-> is_loaded,
                               model_error |-> error_message,
                               service |-> "TernakPro AI Recommendation API"]]
               ELSE [status |-> 503,
                     body |-> [status |-> "unhealthy",
                               model_loaded |-> is_loaded,
                               model_error |-> error_message,
                               service |-> "TernakPro AI Recommendation API"]]
    /\ lastOp' = "health"
    /\ request' = NoRequest
    /\ prediction' = NoPrediction
    /\ predPath' = "none"
    /\ UNCHANGED <<model, is_loaded, error_message, ANIMAL_INFO, started>>

\* GET /api/health of recommend.py (the timestamp field is left out).
health_check ==
    /\ resp' = [status |-> 200,
                body |-> [status |-> "healthy",
                          model_loaded |-> is_loaded,
                          model_error |-> error_message,
                          service |-> "TernakPro AI Recommendation API"]]
    /\ lastOp' = "health"
    /\ request' = NoRequest
    /\ prediction' = NoPrediction
    /\ predPath' = "none"
    /\ UNCHANGED <<model, is_loaded, error_message, ANIMAL_INFO, started>>

\* GET /api/health of the stand-alone app in healt.py.
healt_health_check ==
    /\ resp' = [status |-> 200,
                body |-> [status |-> "healthy",
                          service |-> "TernakPro AI Health Check"]]
    /\ lastOp' = "healt"
    /\ request' = NoRequest
    /\ prediction' = NoPrediction
    /\ predPath' = "none"
    /\ UNCHANGED <<model, is_loaded, error_message, ANIMAL_INFO, started>>

\* GET /
root ==
    /\ resp' = [status |-> 200,
                body |-> [message |-> "TernakPro AI Recommendation API",
                          status |-> "online", version |-> "1.0.0"]]
    /\ lastOp' = "root"
    /\ request' = NoRequest
    /\ prediction' = NoPrediction
    /\ predPath' = "none"
    /\ UNCHANGED <<model, is_loaded, error_message, ANIMAL_INFO, started>>

Next ==
    \/ startup_event
    \/ \E req \in Requests : recommend_livestock(req)
    \/ health_check
    \/ healt_health_check
    \/ root

Spec == Init /\ [][Next]_vars

(***************************************************************************)
(* _generate_explanation on the arguments line 234 passes it               *)
(***************************************************************************)
InitExplain ==
    /\ is_loaded \in BOOLEAN
    /\ model = (IF is_loaded THEN "bundle" ELSE None)
    /\ error_message = None
    /\ ANIMAL_INFO = AnimalInfoTable
    /\ started = TRUE
    /\ lastOp = "none"
    /\ request \in Requests
    /\ prediction = predict(is_loaded, model, request)
    /\ predPath = PredictPath(is_loaded, model)
    /\ resp = NoResponse

Explain ==
    /\ lastOp = "none"
    /\ LET animal_type    == prediction.value.recommended_animal
           animal_details == DictGet(ANIMAL_INFO, animal_type,
                                     ANIMAL_INFO["ayam_pedaging"])
       IN  resp' = [status |-> 0,
                    alasan |-> _generate_explanation(animal_details.name,
                                                     request, prediction.value)]
    /\ lastOp' = "explain"
    /\ UNCHANGED <<model, is_loaded, error_message, ANIMAL_INFO, started,
                   request, prediction, predPath>>

NextExplain == Explain

SpecExplain == InitExplain /\ [][NextExplain]_vars

(***************************************************************************)
(* Properties                                                              *)
(***************************************************************************)
Recommended == lastOp = "recommend"

\* The rule table as the specification states it.
ClaimedAnimal(goal, land_size) ==
    CASE goal = "daging" /\ land_size < 100                     -> "ayam_pedaging"
      [] goal = "daging" /\ 100 <= land_size /\ land_size < 200 -> "kambing"
      [] goal = "daging" /\ land_size >= 200                    -> "sapi_potong"
      [] goal = "telur"                                         -> "ayam_petelur"
      [] goal = "susu"                                          -> "sapi_perah"
      [] OTHER                                                  -> "ayam_pedaging"

\* base(goal, land_size) in units of 1/10000.
ClaimedBase(goal, land_size) ==
    CASE goal = "daging" /\ land_size < 100                     -> 8500
      [] goal = "daging" /\ 100 <= land_size /\ land_size < 200 -> 7500
      [] goal = "daging" /\ land_size >= 200                    -> 8000
      [] goal = "telur"                                         -> 7800
      [] goal = "susu"                                          -> 8200
      [] OTHER                                                  -> 7000

\* multiplier(experience) in tenths.
ClaimedMultiplier(experience) ==
    CASE experience = "pemula"   -> 8
      [] experience = "menengah" -> 9
      [] experience = "ahli"     -> 10
      [] OTHER                   -> 8

\* The fixed success rates of the model path, in units of 1/10000.
ModelPathRate(goal, land_size) ==
    CASE goal = "daging" /\ land_size < 100                     -> 8500
      [] goal = "daging" /\ 100 <= land_size /\ land_size < 200 -> 7800
      [] goal = "daging" /\ land_size >= 200                    -> 8200
      [] goal = "telur"                                         -> 8000
      [] goal = "susu"                                          -> 7500
      [] OTHER                                                  -> 7000

\* C1: every well-formed request to POST /api/recommend, in every
\* ModelState, is answered with HTTP 200 and {success: true, data: ...}.
C1_RecommendAnswers200 ==
    Recommended => (resp.status = 200 /\ resp.success = TRUE)

\* C2: predict returns the animal of the rule table (boundaries 100 and 200
\* in the upper branch), whether or not the model is loaded; the key is a
\* function of goal and land_size alone.
C2_AnimalByRuleTable ==
    Recommended =>
        /\ ~prediction.raised
        /\ prediction.value.recommended_animal
               = ClaimedAnimal(request.goal, request.land_size)

C2_Witness ==
    /\ Recommended
    /\ predPath = "model"
    /\ request.goal = "daging"
    /\ request.land_size = 100
    /\ request.experience = "ahli"
    /\ prediction.value.recommended_animal = "kambing"

\* C3 as stated: for all requests, success_rate = base(goal, land_size) x
\* multiplier(experience).
C3_SuccessRateAlwaysBaseTimesMultiplier ==
    Recommended =>
        prediction.value.success_rate * 10
            = ClaimedBase(request.goal, request.land_size)
                  * ClaimedMultiplier(request.experience)

\* C3 amended: on the rule-based path success_rate = base x multiplier; on
\* the model path success_rate is the fixed rate of the branch, with no
\* experience multiplier.
C3_SuccessRateByPath ==
    Recommended =>
        IF is_loaded /\ Truth(model) = "true"
        THEN prediction.value.success_rate
                 = ModelPathRate(request.goal, request.land_size)
        ELSE prediction.value.success_rate * 10
                 = ClaimedBase(request.goal, request.land_size)
                       * ClaimedMultiplier(request.experience)

C3_Witness ==
    /\ Recommended
    /\ ~is_loaded
    /\ request.goal = "daging"
    /\ request.land_size = 199
    /\ request.experience = "senior"
    /\ prediction.value.success_rate = 6000

\* C4: predict never lets an error out, and whenever the model path is not
\* usable (not loaded, object falsy, or the model branch raised) its result
\* is exactly what _predict_with_rules computes for the same input.
C4_PredictTotalWithFallback ==
    Recommended =>
        /\ ~prediction.raised
        /\ (~is_loaded \/ Truth(model) # "true")
               => prediction.value = _predict_with_rules(request)

C4_Witness ==
    /\ Recommended
    /\ is_loaded
    /\ model = "array"
    /\ predPath = "fallback"
    /\ request.goal = "susu"
    /\ request.experience = "menengah"
    /\ prediction.value.success_rate = 7380

\* C5: every Prediction has roi = success_rate x 0.4 and market_demand =
\* 0.8 + success_rate x 0.2, on the model path and the rule path alike.
C5_RoiAndDemandFromSuccessRate ==
    Recommended =>
        /\ prediction.value.roi * 10 = prediction.value.success_rate * 4
        /\ (prediction.value.market_demand - 8000) * 10
               = prediction.value.success_rate * 2

C5_Witness ==
    /\ Recommended
    /\ predPath = "model"
    /\ request.goal = "telur"
    /\ prediction.value.success_rate = 8000
    /\ prediction.value.roi = 3200
    /\ prediction.value.market_demand = 9600

\* C6: whenever the prediction of a recommend request came from the
\* rule-based path, the model_used the handler reports is 'rule_based'.
C6_RulePathReportsRuleBased ==
    (Recommended /\ predPath \in {"rules", "fallback"})
        => ModelUsed(is_loaded) = "rule_based"

\* C7: GET /api/health answers 200 'healthy' in every ModelState, and the
\* model_loaded / model_error it reports are the holder's current
\* is_loaded / error_message; startup always completes.
C7_HealthAlwaysHealthy ==
    /\ lastOp = "health" =>
           /\ resp.status = 200
           /\ resp.body.status = "healthy"
           /\ resp.body.model_loaded = is_loaded
           /\ resp.body.model_error = error_message
    /\ lastOp = "healt" =>
           /\ resp.status = 200
           /\ resp.body.status = "healthy"

C7_Witness ==
    /\ lastOp = "health"
    /\ started
    /\ ~is_loaded
    /\ error_message = "invalid load key"
    /\ resp.body.model_error = "invalid load key"

\* C8: the explanation is the template of the recommended animal key; the
\* generic fallback template is used only for keys outside the five.
C8_TemplateOfRecommendedKey ==
    lastOp = "explain" =>
        resp.alasan.template = prediction.value.recommended_animal

\* C9: in every recommend response potensi_keuntungan = floor(initial_cost
\* x roi), with biaya_awal and jenis_hewan from the profile of the
\* recommended key.
C9_ProfitFromProfileAndRoi ==
    Recommended =>
        /\ resp.status = 200
        /\ LET profile == DictGet(ANIMAL_INFO,
                                  prediction.value.recommended_animal,
                                  ANIMAL_INFO["ayam_pedaging"])
           IN  /\ resp.data.jenis_hewan = profile.name
               /\ resp.data.biaya_awal = profile.initial_cost
               /\ resp.data.potensi_keuntungan
                      = MulFloor(profile.initial_cost, prediction.value.roi)

\* C10: once startup has finished, no handler step changes is_loaded,
\* error_message, the held model or ANIMAL_INFO, and a request repeated
\* right after itself gets the same prediction and response.
C10_WriteOnce ==
    [][started =>
          /\ UNCHANGED <<model, is_loaded, error_message, ANIMAL_INFO>>
          /\ (Recommended /\ lastOp' = "recommend" /\ request' = request)
                 => (prediction' = prediction /\ resp' = resp)]_vars

C10_Witness ==
    /\ started
    /\ is_loaded
    /\ model = "array"
    /\ Recommended
    /\ predPath = "fallback"
====
